---- MODULE Spec2Model ----
(***************************************************************************)
(* The persisted application store (useAppStore: counter + comments,       *)
(* wrapped in devtools(persist(...))), the durable localStorage slot       *)
(* 'app-storage', the in-flight comment requests, and the components that  *)
(* gate rendering on hydration (HydrationBoundary, HydrationStatus,        *)
(* CommentsSection).                                                       *)
(*                                                                         *)
(* One page load is a session: the store module is evaluated (the persist  *)
(* middleware restores the slot synchronously, localStorage being          *)
(* synchronous), the page renders, its effects run, the boundary's 50 ms   *)
(* timer fires.  Store actions may be called by any code at any time once  *)
(* the store exists.                                                       *)
(***************************************************************************)
EXTENDS Integers, Sequences, FiniteSets, TLC

\* ------------------------------------------------------------------ bounds

\* |count| stays within MaxCount (count is an unbounded JS number).
MaxCount == 2
\* Comment ids 1..MaxId; a response body holds at most MaxId records.
MaxId == 2
\* Comment requests started per page load.
MaxFetches == 2
\* Counter calls in a run of CounterSpec.
MaxCalls == 4

\* ------------------------------------------------------- program constants

\* persist option `version`.
Version == 1
\* persist's default version, the one a store persisted without the option writes.
DefaultVersion == 0

null == "null"
FailedToFetch == "Failed to fetch comments"
NetworkDown == "Network down"
QuotaExceeded == "QuotaExceededError"

\* ------------------------------------------------------------------- data

\* A Comment record as the endpoint returns it.
Comment(i) == [postId |-> 1, id |-> i, name |-> "n", email |-> "e", body |-> "b"]

\* Response bodies: the first k comments in either order (ids are unique
\* within a result, and the order of the response is observable).
Ascending(k) == [i \in 1..k |-> Comment(i)]
Descending(k) == [i \in 1..k |-> Comment(k + 1 - i)]
Payloads == {Ascending(k) : k \in 0..MaxId} \cup {Descending(k) : k \in 0..MaxId}

\* The amounts incrementBy is called with (negative included).
Amounts == {-1, 2}

Counts == (0 - MaxCount)..MaxCount

\* The initial state of the store creator (the data fields of AppState).
initialState ==
    [count |-> 0, comments |-> <<>>, loading |-> FALSE, error |-> null,
     isHydrated |-> FALSE]

\* zustand set(partial, false): state = { ...state, ...partial }.
SetState(state, partial) ==
    [f \in DOMAIN state \cup DOMAIN partial |->
        IF f \in DOMAIN partial THEN partial[f] ELSE state[f]]

\* ------------------------------------------------------- the durable slot

\* A snapshot is the `state` object of the stored JSON: a record of fields.
noState == [f \in {} |-> 0]

\* The slot holds no item (getItem returns null).
absentSlot == [kind |-> "absent", version |-> DefaultVersion, state |-> noState]
\* The slot holds text JSON.parse rejects.
malformedSlot == [kind |-> "malformed", version |-> DefaultVersion, state |-> noState]

\* The slot holds the text of { state, version }.
jsonSlot(state, version) == [kind |-> "json", version |-> version, state |-> state]

\* persist's default partialize (the whole state), and the sliced store's
\* partialize (comments only).
partializeAll(state) == state
partializeComments(state) == [comments |-> state.comments]
\* persist option partialize: the fields kept durable.
partialize(state) == [comments |-> state.comments, count |-> state.count]

\* persist's setItem: storage.setItem(name, { state: partialize(get()), version }),
\* serialized by createJSONStorage.
setItem(state) == jsonSlot(partialize(state), Version)

\* What earlier page loads can have left under the key 'app-storage': nothing,
\* unparseable text, a snapshot this store wrote (version 1), a snapshot with a
\* non-persisted field in it, or the snapshot of the plain counter store, which
\* uses the same key, keeps its whole state and writes the default version.
InitSnapshots ==
    {[comments |-> L, count |-> c] : L \in Payloads, c \in {0, 1}}
        \cup {[comments |-> <<>>, count |-> 1, loading |-> TRUE]}
PlainCounterSnapshots == {[count |-> 1]}
InitSlots ==
    {absentSlot, malformedSlot}
        \cup {jsonSlot(st, Version) : st \in InitSnapshots}
        \cup {jsonSlot(st, DefaultVersion) : st \in PlainCounterSnapshots}

\* "ok": localStorage works; "unavailable": reading window.localStorage throws
\* (createJSONStorage then returns undefined and persist is switched off);
\* "full": getItem works and every setItem throws QuotaExceededError;
\* "tight": the quota has room for a snapshot without comments only, so that
\* the setItem of a snapshot with comments throws QuotaExceededError.
StorageModes == {"ok", "unavailable", "tight", "full"}

\* localStorage.setItem throws for the snapshot of this state.
setItemThrows(mode, state) ==
    \/ mode = "full"
    \/ mode = "tight" /\ Len(state.comments) > 0

\* ---------------------------------------------------------- restore cycle

\* persist option migrate: returns the persisted state as it is.
migrate(persistedState, version) == persistedState

\* persist's default merge: { ...currentState, ...persistedState }.
merge(persistedState, currentState) == SetState(currentState, persistedState)

\* setHydrated flipping the flag.
toggleHydrated(state) == [isHydrated |-> ~state.isHydrated]
\* setHydrated: set({ isHydrated: true }).
setHydrated(state) == [isHydrated |-> TRUE]

\* The callback with its condition inverted.
rehydratedOnlyOnError(error) == error
\* The callback onRehydrateStorage returns: it calls state.setHydrated() unless
\* it was given an error (which it only logs).
rehydrated(error) == ~error

\* The callback putting a restore error into the store's error field.
callbackSurfacingError(st, sl, error, mode) ==
    IF error
    THEN [store |-> SetState(st, [error |-> "Hydration failed"]), slot |-> sl,
          failed |-> FALSE]
    ELSE LET next == SetState(st, setHydrated(st))
         IN  [store |-> next,
              slot |-> IF setItemThrows(mode, next) THEN sl ELSE setItem(next),
              failed |-> setItemThrows(mode, next)]
\* One call of that callback on store st: setHydrated() is a persisted set, so
\* it writes the slot; `failed` says that this write threw.
callback(st, sl, error, mode) ==
    IF rehydrated(error)
    THEN LET next == SetState(st, setHydrated(st))
         IN  [store |-> next,
              slot |-> IF setItemThrows(mode, next) THEN sl ELSE setItem(next),
              failed |-> setItemThrows(mode, next)]
    ELSE [store |-> st, slot |-> sl, failed |-> FALSE]

\* persist's hydrate(), run synchronously while the store is created (toThenable
\* over the synchronous localStorage): getItem -> (migrate) -> merge ->
\* set(merged, true) -> (setItem when migrated) -> callback(state, undefined);
\* an exception anywhere on the way is caught and goes to callback(undefined, e).
\* With no storage there is no hydrate() at all.
hydrate(st, sl, mode) ==
    IF mode = "unavailable" THEN [store |-> st, slot |-> sl, failed |-> FALSE]
    ELSE IF sl.kind = "malformed" THEN callback(st, sl, TRUE, mode)
    ELSE LET migrated == sl.kind = "json" /\ sl.version # Version
             persisted == IF sl.kind = "absent" THEN noState
                          ELSE IF migrated THEN migrate(sl.state, sl.version)
                          ELSE sl.state
             merged == merge(persisted, st)
             afterMigrate == IF migrated /\ ~setItemThrows(mode, merged)
                             THEN setItem(merged) ELSE sl
         IN  IF migrated /\ setItemThrows(mode, merged)
             THEN callback(merged, sl, TRUE, mode)
             ELSE LET r == callback(merged, afterMigrate, FALSE, mode)
                  IN  IF r.failed THEN callback(r.store, r.slot, TRUE, mode) ELSE r

\* ---------------------------------------------------------- store actions

\* The partial state each action hands to set().
increment(state) == [count |-> state.count + 1]
decrement(state) == [count |-> state.count - 1]
\* incrementBy ignoring its argument.
incrementByOne(state, amount) == [count |-> state.count + 1]
incrementBy(state, amount) == [count |-> state.count + amount]
\* reset clearing the error as well.
resetWithError(state) == [count |-> 0, error |-> null]
reset(state) == [count |-> 0]
\* clearComments removing the last comment only.
clearLastComment(state) ==
    [comments |-> SubSeq(state.comments, 1, Len(state.comments) - 1),
     error |-> null]
clearComments(state) == [comments |-> <<>>, error |-> null]
\* resetAll leaving count alone.
resetAllButCount(state) == [comments |-> <<>>, loading |-> FALSE, error |-> null]
\* resetAll resetting isHydrated as well.
resetAllHydration(state) ==
    [count |-> 0, comments |-> <<>>, loading |-> FALSE, error |-> null,
     isHydrated |-> FALSE]
resetAll(state) == [count |-> 0, comments |-> <<>>, loading |-> FALSE, error |-> null]
\* fetchComments: the set before the request, and the two sets after it.
\* The start set leaving the error of the previous request in place.
fetchStartKeepingError(state) == [loading |-> TRUE]
fetchStart(state) == [loading |-> TRUE, error |-> null]
\* The success set leaving comments as they are.
fetchSuccessKeepingComments(state, data) == [loading |-> FALSE, error |-> null]
fetchSuccess(state, data) == [comments |-> data, loading |-> FALSE, error |-> null]
\* The error set dropping the comments as well.
fetchErrorClearing(state, message) ==
    [error |-> message, loading |-> FALSE, comments |-> <<>>]
fetchError(state, message) == [error |-> message, loading |-> FALSE]

\* The fields of a Comment, all required.
CommentFields == {"postId", "id", "name", "email", "body"}
\* A response body whose record lacks name, email and body.
IncompletePayloads == {<<[postId |-> 1, id |-> 1]>>}

\* How a request can end: a success status with a body (response.json() is
\* taken as it comes), a non-success status, or a rejection with a message.
Outcomes ==
    {[kind |-> "ok", data |-> d, message |-> null] :
        d \in Payloads \cup IncompletePayloads}
        \cup {[kind |-> "status", data |-> <<>>, message |-> FailedToFetch],
              [kind |-> "reject", data |-> <<>>, message |-> NetworkDown]}

\* No request has settled yet.
noResponse == [kind |-> "none", data |-> <<>>, message |-> null]

\* ------------------------------------------------------------ components

\* The boundary trusting the store's isHydrated alone.
HydrationBoundaryStoreOnly(isHydrated, storeHydrated) ==
    IF ~storeHydrated THEN "fallback" ELSE "children"
\* HydrationBoundary's render: the fallback unless its own isHydrated state
\* and the store's isHydrated are both true.
HydrationBoundary(isHydrated, storeHydrated) ==
    IF ~isHydrated \/ ~storeHydrated THEN "fallback" ELSE "children"

\* HydrationStatus's render: "Mounting..." until its mounted state is set, then
\* the status panel, which shows count and comments.length.
HydrationStatus(isMounted) == IF ~isMounted THEN "mounting" ELSE "status"

\* The Refresh button that is never disabled.
RefreshAlwaysEnabled(loading) == TRUE
\* CommentsSection's Refresh button: disabled={loading}.
RefreshEnabled(loading) == ~loading

\* HydrationBoundary's useState(false) and HydrationStatus's useState(false).
\* (initialIsHydratedTrue: the boundary starting as useState(true).)
initialIsHydratedTrue == TRUE
initialIsHydrated == FALSE
initialMounted == FALSE

\* What the server renders for the boundary: no localStorage there, so the
\* store keeps its initial state, and no effect runs.
ServerRender == HydrationBoundary(initialIsHydrated, initialState.isHydrated)

\* ------------------------------------------------------------------ state

VARIABLES
    storage,          \* the environment's localStorage: a StorageMode
    slot,             \* the item under 'app-storage'
    phase,            \* "boot", "created" (store module evaluated),
                      \* "rendered" (first render committed), "mounted" (effects ran)
    store,            \* the data fields of useAppStore's state
    started,          \* comment requests issued in this page load
    inflight,         \* the requests not yet settled
    thrown,           \* the last call threw to its caller
    lastAction,       \* the label of the last set(), as devtools records it
    clientHydrated,   \* HydrationBoundary's isHydrated state
    timerPending,     \* HydrationBoundary's 50 ms timer is set
    mounted,          \* HydrationStatus's mounted state
    commentsMounted,  \* CommentsSection's mount effect ran
    view,             \* what HydrationBoundary shows
    statusView,       \* what HydrationStatus shows
    firstPaint,       \* what HydrationBoundary showed on its first render
    response,         \* how the request that settled last ended
    restore,          \* persist's restore cycle: "pending", "finished", or
                      \* "off" (no storage, so no cycle)
    calls             \* the counter calls made so far (kept by CounterSpec)

vars ==
    <<storage, slot, phase, store, started, inflight, thrown, lastAction,
      clientHydrated, timerPending, mounted, commentsMounted, view, statusView,
      firstPaint, response, restore, calls>>

Init ==
    /\ storage \in StorageModes
    /\ slot \in (IF storage = "unavailable" THEN {absentSlot} ELSE InitSlots)
    /\ phase = "boot"
    /\ store = initialState
    /\ started = 0
    /\ inflight = {}
    /\ thrown = FALSE
    /\ lastAction = "none"
    /\ clientHydrated = initialIsHydrated
    /\ timerPending = FALSE
    /\ mounted = initialMounted
    /\ commentsMounted = FALSE
    /\ view = "none"
    /\ statusView = "none"
    /\ firstPaint = "none"
    /\ response = noResponse
    /\ restore = "pending"
    /\ calls = <<>>

\* ---------------------------------------------------------------- steps

\* React re-renders the components after every state change.
Paint ==
    /\ view' = IF phase' \in {"rendered", "mounted"}
               THEN HydrationBoundary(clientHydrated', store'.isHydrated)
               ELSE "none"
    /\ statusView' = IF phase' \in {"rendered", "mounted"}
                     THEN HydrationStatus(mounted')
                     ELSE "none"

\* The set() the store's actions are given: devtools records the label, the
\* state is merged, then persist writes the slot (setItem); a failing write
\* throws into the caller after the state has changed.  Without storage
\* persist passes set() through.
Set(partial, label) ==
    /\ store' = SetState(store, partial)
    /\ store'.count \in Counts
    /\ slot' = IF storage = "unavailable" \/ setItemThrows(storage, store')
               THEN slot ELSE setItem(store')
    /\ thrown' = (storage # "unavailable" /\ setItemThrows(storage, store'))
    /\ lastAction' = label

\* A call of a synchronous action by any code holding the store.
Call(partial, label) ==
    /\ phase # "boot"
    /\ Set(partial, label)
    /\ UNCHANGED <<storage, phase, started, inflight, clientHydrated,
                   timerPending, mounted, commentsMounted, firstPaint,
                   response, restore>>
    /\ Paint

\* The store created with its restore cycle left for later (what persist does
\* over an asynchronous storage, or with skipHydration).
CreateStoreDeferred ==
    /\ phase = "boot"
    /\ phase' = "created"
    /\ UNCHANGED <<storage, slot, store, started, inflight, thrown,
                   lastAction, clientHydrated, timerPending, mounted,
                   commentsMounted, firstPaint, response, restore, calls>>
    /\ Paint
\* The store module is evaluated: create() runs the initializer and persist
\* restores the slot.  create() itself never throws.
CreateStore ==
    /\ phase = "boot"
    /\ LET r == hydrate(initialState, slot, storage)
       IN  /\ store' = r.store
           /\ slot' = r.slot
           /\ lastAction' = IF r.store.isHydrated THEN "setHydrated"
                            ELSE IF r.store # initialState THEN "anonymous"
                            ELSE lastAction
    /\ thrown' = FALSE
    /\ phase' = "created"
    /\ restore' = IF storage = "unavailable" THEN "off" ELSE "finished"
    /\ UNCHANGED <<storage, started, inflight, clientHydrated,
                   timerPending, mounted, commentsMounted, firstPaint,
                   response, calls>>
    /\ Paint

\* The page's first render: HydrationStatus and HydrationBoundary with their
\* useState(false) values.
RenderPage ==
    /\ phase = "created"
    /\ phase' = "rendered"
    /\ UNCHANGED <<storage, slot, store, started, inflight, thrown,
                   lastAction, clientHydrated, timerPending, mounted,
                   commentsMounted, response, restore, calls>>
    /\ Paint
    /\ firstPaint' = view'

\* The mount effects: HydrationStatus sets mounted, HydrationBoundary starts
\* checkHydration(), which waits on a 50 ms timer.
RunEffects ==
    /\ phase = "rendered"
    /\ phase' = "mounted"
    /\ mounted' = TRUE
    /\ timerPending' = TRUE
    /\ UNCHANGED <<storage, slot, store, started, inflight, thrown,
                   lastAction, clientHydrated, commentsMounted, firstPaint,
                   response, restore, calls>>
    /\ Paint

\* The timer fires: checkHydration() resumes and calls setIsHydrated(true).
checkHydration ==
    /\ timerPending
    /\ timerPending' = FALSE
    /\ clientHydrated' = TRUE
    /\ UNCHANGED <<storage, slot, phase, store, started, inflight,
                   thrown, lastAction, mounted, commentsMounted, firstPaint,
                   response, restore, calls>>
    /\ Paint

Increment == Call(increment(store), "increment") /\ UNCHANGED calls
Decrement == Call(decrement(store), "decrement") /\ UNCHANGED calls
IncrementBy ==
    \E amount \in Amounts :
        Call(incrementBy(store, amount), "incrementBy") /\ UNCHANGED calls
Reset == Call(reset(store), "resetCounter") /\ UNCHANGED calls
SetHydrated == Call(setHydrated(store), "setHydrated") /\ UNCHANGED calls
ClearComments == Call(clearComments(store), "clearComments") /\ UNCHANGED calls
ResetAll == Call(resetAll(store), "resetAll") /\ UNCHANGED calls

\* fetchComments up to its await: set loading, then issue the request.  When
\* the set throws (it is outside the try block) no request is issued.
fetchComments ==
    /\ started < MaxFetches
    /\ Set(fetchStart(store), "fetchComments/start")
    /\ IF thrown'
       THEN UNCHANGED <<started, inflight>>
       ELSE /\ started' = started + 1
            /\ inflight' = inflight \cup {started + 1}

FetchComments ==
    /\ phase # "boot"
    /\ fetchComments
    /\ UNCHANGED <<storage, phase, clientHydrated, timerPending, mounted,
                   commentsMounted, firstPaint, response, restore, calls>>
    /\ Paint

\* A request settles and fetchComments resumes: the success set inside try,
\* or the error set inside catch (also reached when the success set throws).
FetchSettles ==
    \E id \in inflight, o \in Outcomes :
        /\ inflight' = inflight \ {id}
        /\ response' = o
        /\ IF o.kind = "ok"
           THEN LET done == SetState(store, fetchSuccess(store, o.data))
                IN  IF storage # "unavailable" /\ setItemThrows(storage, done)
                    THEN /\ store' = SetState(done, fetchError(done, QuotaExceeded))
                         /\ slot' = slot
                         /\ thrown' = TRUE
                         /\ lastAction' = "fetchComments/error"
                    ELSE Set(fetchSuccess(store, o.data), "fetchComments/success")
           ELSE Set(fetchError(store, o.message), "fetchComments/error")
        /\ UNCHANGED <<storage, phase, started, clientHydrated,
                       timerPending, mounted, commentsMounted, firstPaint,
                       restore, calls>>
        /\ Paint

\* CommentsSection mounts (the boundary shows its children): its effect
\* fetches when there are no comments and no fetch is running.
CommentsSectionMount ==
    /\ view = "children"
    /\ ~commentsMounted
    /\ commentsMounted' = TRUE
    /\ IF Len(store.comments) = 0 /\ ~store.loading
       THEN fetchComments
       ELSE UNCHANGED <<store, slot, thrown, lastAction, started, inflight>>
    /\ UNCHANGED <<storage, phase, clientHydrated, timerPending, mounted,
                   firstPaint, response, restore, calls>>
    /\ Paint

\* The Clear Storage button of HydrationStatus: resetAll(), then
\* localStorage.removeItem('app-storage'), then window.location.reload().
\* A throw in resetAll's write, or in reading window.localStorage, ends the
\* handler there.  The reload starts the next page load.
ClearStorage ==
    /\ statusView = "status"
    /\ IF /\ storage # "unavailable"
          /\ ~setItemThrows(storage, SetState(store, resetAll(store)))
       THEN /\ slot' = absentSlot
            /\ phase' = "boot"
            /\ store' = initialState
            /\ started' = 0
            /\ inflight' = {}
            /\ thrown' = FALSE
            /\ lastAction' = "none"
            /\ clientHydrated' = initialIsHydrated
            /\ timerPending' = FALSE
            /\ mounted' = initialMounted
            /\ commentsMounted' = FALSE
            /\ firstPaint' = "none"
            /\ response' = noResponse
            /\ restore' = "pending"
       ELSE /\ store' = SetState(store, resetAll(store))
            /\ lastAction' = "resetAll"
            /\ slot' = slot
            /\ thrown' = TRUE
            /\ UNCHANGED <<phase, started, inflight, clientHydrated,
                           timerPending, mounted, commentsMounted, firstPaint,
                           response, restore>>
    /\ UNCHANGED <<storage, calls>>
    /\ Paint

Next ==
    \/ CreateStore
    \/ RenderPage
    \/ RunEffects
    \/ checkHydration
    \/ CommentsSectionMount
    \/ Increment
    \/ Decrement
    \/ IncrementBy
    \/ Reset
    \/ SetHydrated
    \/ ClearComments
    \/ ResetAll
    \/ FetchComments
    \/ FetchSettles
    \/ ClearStorage

Spec == Init /\ [][Next]_vars

\* ------------------------------------------------------- the page alone

\* The store driven by nothing but the page: the buttons of CommentsSection
\* and CounterSection exist once the boundary shows its children.  (The +5
\* and +10 buttons of CounterSection are left out: they take count beyond
\* MaxCount.)
ClickRefresh ==
    /\ view = "children"
    /\ commentsMounted
    /\ RefreshEnabled(store.loading)
    /\ FetchComments
ClickClear == view = "children" /\ commentsMounted /\ ClearComments
ClickIncrement == view = "children" /\ Increment
ClickDecrement == view = "children" /\ Decrement
ClickReset == view = "children" /\ Reset

UiNext ==
    \/ CreateStore
    \/ RenderPage
    \/ RunEffects
    \/ checkHydration
    \/ CommentsSectionMount
    \/ ClickRefresh
    \/ ClickClear
    \/ ClickIncrement
    \/ ClickDecrement
    \/ ClickReset
    \/ FetchSettles
    \/ ClearStorage

UiSpec == Init /\ [][UiNext]_vars

\* ------------------------------------------------------ the counter alone

\* The counter actions called in any order on a store created over an empty
\* slot (count = 0), each call logged.
CounterInit == Init /\ slot = absentSlot

Logged(op, amount) ==
    /\ Len(calls) < MaxCalls
    /\ calls' = Append(calls, [op |-> op, amount |-> amount])

CounterIncrement == Call(increment(store), "increment") /\ Logged("increment", 0)
CounterDecrement == Call(decrement(store), "decrement") /\ Logged("decrement", 0)
CounterIncrementBy ==
    \E amount \in Amounts :
        Call(incrementBy(store, amount), "incrementBy") /\ Logged("incrementBy", amount)
CounterReset == Call(reset(store), "resetCounter") /\ Logged("reset", 0)

CounterNext ==
    \/ CreateStore
    \/ CounterIncrement
    \/ CounterDecrement
    \/ CounterIncrementBy
    \/ CounterReset

CounterSpec == CounterInit /\ [][CounterNext]_vars

\* What the runtime guarantees to run: module evaluation, rendering, effects,
\* timers, and the settling of every request.  Nothing obliges anyone to call
\* a store action.
FairSpec ==
    /\ Spec
    /\ WF_vars(CreateStore)
    /\ WF_vars(RenderPage)
    /\ WF_vars(RunEffects)
    /\ WF_vars(checkHydration)
    /\ WF_vars(CommentsSectionMount)
    /\ WF_vars(FetchSettles)

\* ------------------------------------------------------------ properties

Painted == phase \in {"rendered", "mounted"}
\* The boundary's post-mount confirmation (the 50 ms timer) has fired.
TickFired == phase = "mounted" /\ ~timerPending
\* A step of one page load in which an action updates the existing store.
StoreUpdate == phase # "boot" /\ phase' # "boot" /\ store' # store
\* The step in which the page is reloaded: the next page load begins.
Reload == phase # "boot" /\ phase' = "boot"
\* The step that evaluates the store module, restore cycle included.
Restore == phase = "boot" /\ phase' = "created"

\* C1: the boundary shows the fallback on its first render, even when the
\* store's isHydrated is already true then, and it shows its children exactly
\* when the confirmation tick has fired and the store's isHydrated is true.
C1_ReadyIsTickAndHydrated ==
    /\ phase = "rendered" => view = "fallback"
    /\ Painted => (view = "children" <=> (TickFired /\ store.isHydrated))
C1_Witness ==
    phase = "rendered" /\ store.isHydrated /\ view = "fallback"

\* C2: in every page load, whatever the slot holds and whether or not storage
\* is available, isHydrated eventually becomes true.
C2_EventuallyHydrated == (phase = "boot") ~> store.isHydrated

\* C3: a restore from a slot that holds a version-1 snapshot with count and
\* comments leaves the store with that count, those comments and isHydrated.
C3_RestoreValidSnapshot ==
    [][(/\ Restore
        /\ slot.kind = "json"
        /\ slot.version = Version
        /\ {"count", "comments"} \subseteq DOMAIN slot.state)
       => (/\ store'.count = slot.state.count
           /\ store'.comments = slot.state.comments
           /\ store'.isHydrated)]_vars
C3_Witness ==
    /\ phase = "created"
    /\ started = 0
    /\ store.count = 1
    /\ Len(store.comments) = MaxId
    /\ store.isHydrated

\* The slot holds exactly the projection {count, comments} of st at version 1.
SlotShows(sl, st) ==
    /\ sl.kind = "json"
    /\ sl.version = Version
    /\ {"count", "comments"} \subseteq DOMAIN sl.state
    /\ sl.state.count = st.count
    /\ sl.state.comments = st.comments

\* C4 as stated: after every store update by an action the slot shows the
\* projection of the latest state at version 1.
C4_SlotFollowsEveryUpdate ==
    [][StoreUpdate => SlotShows(slot', store')]_vars
\* C4 as amended: so it is after every update whose write succeeds, which is
\* every update while localStorage is available and accepts the write.
C4_SlotFollowsWrittenUpdate ==
    [][(StoreUpdate /\ storage # "unavailable" /\ ~thrown')
       => SlotShows(slot', store')]_vars
C4_Witness ==
    /\ storage = "ok"
    /\ store.count = MaxCount
    /\ Len(store.comments) = 1
    /\ SlotShows(slot, store)

\* C5: every snapshot written to the slot has exactly the fields count and
\* comments.
C5_WrittenSnapshotFields ==
    [][(slot' # slot /\ slot'.kind = "json")
       => DOMAIN slot'.state = {"count", "comments"}]_vars
C5_Witness ==
    /\ store.loading
    /\ store.error = null
    /\ started > 0
    /\ slot = setItem(store)

\* C6: a restore from a slot holding malformed text leaves count = 0,
\* comments = [] and error = null, and throws nothing.
C6_MalformedFallsBackToDefaults ==
    [][(Restore /\ slot.kind = "malformed")
       => (/\ store'.count = 0
           /\ store'.comments = <<>>
           /\ store'.error = null
           /\ ~thrown')]_vars
C6_Witness ==
    /\ phase = "created"
    /\ slot.kind = "malformed"
    /\ lastAction = "none"
    /\ store = initialState

\* C7: count and comments are on display (in the boundary's children or in the
\* status panel) only while the store's isHydrated is true.
C7_PersistedShownOnlyHydrated ==
    (view = "children" \/ statusView = "status") => store.isHydrated

\* C8: the boundary's first render is what the server renders, the fallback,
\* whatever the slot held.
C8_FirstPaintIsServerRender ==
    Painted => (firstPaint = ServerRender /\ firstPaint = "fallback")
C8_Witness ==
    /\ Painted
    /\ firstPaint = "fallback"
    /\ started = 0
    /\ store.isHydrated
    /\ Len(store.comments) = MaxId

\* C9: within a page load, once the boundary shows its children it keeps
\* showing them, whatever action runs.
C9_ReadyIsPermanent ==
    [][(view = "children" /\ ~Reload) => view' = "children"]_vars
C9_Witness ==
    view = "children" /\ lastAction = "resetAll"

\* C10: at most one comment request is in flight.
C10_AtMostOneInFlight == Cardinality(inflight) <= 1

\* The step in which a request settles and fetchComments resumes.
Settles == ~Reload /\ inflight' # inflight /\ inflight' \subseteq inflight
\* A step of one page load in which an action of the store runs.
ActionStep ==
    /\ phase # "boot"
    /\ ~Reload
    /\ \/ store' # store
       \/ lastAction' # lastAction
       \/ thrown' # thrown
       \/ started' # started
       \/ inflight' # inflight

\* C11: the response of a request that settles after a request started later
\* has settled is dropped: it changes neither comments nor error.
C11_StaleResponseDropped ==
    [][\A id \in inflight \ inflight' :
          (Settles /\ \E newer \in (id + 1)..started : newer \notin inflight)
          => (store'.comments = store.comments /\ store'.error = store.error)]_vars

\* C12: while loading is true, a request has been started and has not settled.
C12_LoadingOnlyInFlight == store.loading => inflight # {}

\* C13: while a request is in flight, loading is true.
C13_LoadingWhileInFlight == inflight # {} => store.loading

\* C14: when a request settles with a success status and a list, the store
\* has loading = false, error = null and comments equal to that list, in the
\* order of the response.
C14_SuccessStoresTheList ==
    [][(Settles /\ response'.kind = "ok")
       => (/\ ~store'.loading
           /\ store'.error = null
           /\ store'.comments = response'.data)]_vars

\* C15: when a request settles with a rejection or a non-success status, the
\* store has loading = false, error equal to the failure's message ('Failed to
\* fetch comments' for a non-success status) and comments as they were.
C15_FailureKeepsComments ==
    [][(Settles /\ response'.kind \in {"status", "reject"})
       => (/\ ~store'.loading
           /\ store'.error = response'.message
           /\ response'.kind = "status" => store'.error = FailedToFetch
           /\ store'.comments = store.comments)]_vars
C15_Witness ==
    /\ response.kind = "status"
    /\ lastAction = "fetchComments/error"
    /\ store.error = FailedToFetch
    /\ ~store.loading
    /\ Len(store.comments) = MaxId

\* What the logged calls make of 0, applied in order: +1, -1, +n, set to 0.
RECURSIVE Applied(_)
Applied(log) ==
    IF log = <<>> THEN 0
    ELSE LET before == Applied(SubSeq(log, 1, Len(log) - 1))
             call == log[Len(log)]
         IN  CASE call.op = "increment" -> before + 1
               [] call.op = "decrement" -> before - 1
               [] call.op = "incrementBy" -> before + call.amount
               [] call.op = "reset" -> 0

\* C16: after any sequence of counter calls on a store that started at
\* count = 0, count is what applying them in order gives; and incrementBy(-1)
\* does to the state what decrement does.
C16_CountIsCallsInOrder ==
    /\ store.count = Applied(calls)
    /\ SetState(store, incrementBy(store, -1)) = SetState(store, decrement(store))
C16_Witness ==
    /\ Len(calls) = MaxCalls
    /\ {calls[i].op : i \in 1..Len(calls)}
          = {"increment", "decrement", "incrementBy", "reset"}
    /\ \E i \in 1..Len(calls) : calls[i].amount = -1
    /\ store.count = -1

\* C17: within a page load isHydrated never goes from true to false, and
\* resetAll leaves it as it is.
C17_HydratedIsMonotonic ==
    [][~Reload
       => (/\ store.isHydrated => store'.isHydrated
           /\ (ActionStep /\ lastAction' = "resetAll")
                => store'.isHydrated = store.isHydrated)]_vars
C17_Witness ==
    /\ store.isHydrated
    /\ lastAction = "resetAll"
    /\ statusView = "status"
    /\ store.count = 0

\* C18: after a restore, whatever fields the snapshot has, loading is false
\* and error is null.
C18_RestoreMergesPersistedOnly ==
    [][Restore => (~store'.loading /\ store'.error = null)]_vars

\* C19: a restore from a snapshot of a version lower than 1 discards it: the
\* store starts with count = 0 and comments = [].
C19_OlderVersionDiscarded ==
    [][(Restore /\ slot.kind = "json" /\ slot.version < Version)
       => (store'.count = 0 /\ store'.comments = <<>>)]_vars

C21_ResetAllReachesTheSlot ==
    [][(ActionStep /\ lastAction' = "resetAll")
       => (/\ store'.count = 0
           /\ store'.comments = <<>>
           /\ ~store'.loading
           /\ store'.error = null
           /\ (storage # "unavailable" /\ ~setItemThrows(storage, store'))
                => (/\ SlotShows(slot', store')
                    /\ slot'.state.count = 0
                    /\ slot'.state.comments = <<>>))]_vars
C21_Witness ==
    /\ lastAction = "resetAll"
    /\ response.kind = "ok"
    /\ Len(response.data) = MaxId
    /\ store.comments = <<>>
    /\ store.count = 0
    /\ SlotShows(slot, store)

\* C22: a write of the slot that fails is not thrown into the action that
\* made it, and leaves error null or at the message of a request failure.
C22_WriteFailureStaysSilent ==
    [][(ActionStep /\ storage # "unavailable" /\ setItemThrows(storage, store'))
       => (/\ ~thrown'
           /\ store'.error \in {null, FailedToFetch, NetworkDown})]_vars

\* Every record of the list has the fields of a Comment.
WellFormed(data) == \A i \in 1..Len(data) : CommentFields \subseteq DOMAIN data[i]

\* C23: when a request settles with a success status and a list with a record
\* that lacks a field of Comment, error is set, loading is false and comments
\* are as they were.
C23_IncompleteRecordsFail ==
    [][(Settles /\ response'.kind = "ok" /\ ~WellFormed(response'.data))
       => (/\ store'.error # null
           /\ ~store'.loading
           /\ store'.comments = store.comments)]_vars

\* C24: in every state, setHydrated gives isHydrated = true and a state that
\* a second setHydrated leaves as it is, and clearComments gives a state that
\* a second clearComments leaves as it is.
C24_Idempotent ==
    LET hydrated == SetState(store, setHydrated(store))
        cleared == SetState(store, clearComments(store))
    IN  /\ hydrated.isHydrated
        /\ SetState(hydrated, setHydrated(hydrated)) = hydrated
        /\ SetState(cleared, clearComments(cleared)) = cleared
C24_Witness ==
    /\ Len(store.comments) = MaxId
    /\ store.error = FailedToFetch
    /\ store.isHydrated
    /\ lastAction = "setHydrated"

\* C25: in every state, loading = true implies error = null.
C25_LoadingHasNoError == store.loading => store.error = null
C25_Witness ==
    /\ store.loading
    /\ store.error = null
    /\ response.kind = "reject"
    /\ Cardinality(inflight) = MaxFetches - 1

\* C26: clearComments and resetAll leave the requests in flight in flight,
\* and a request that settles right after one of them is still applied: a
\* success puts its list into comments, a failure its message into error.
C26_ClearDoesNotCancel ==
    [][/\ (ActionStep /\ lastAction' \in {"clearComments", "resetAll"})
            => inflight' = inflight
       /\ (Settles /\ lastAction \in {"clearComments", "resetAll"})
            => (/\ response'.kind = "ok" => store'.comments = response'.data
                /\ response'.kind \in {"status", "reject"}
                     => store'.error = response'.message)]_vars
C26_Witness ==
    /\ inflight # {}
    /\ lastAction = "resetAll"
    /\ ~store.loading
    /\ store.comments = <<>>

\* C27: with fetchComments called by CommentsSection only (its mount effect
\* and its Refresh button), no two requests are in flight together.
C27_PageKeepsOneInFlight == \A a, b \in inflight : a = b
C27_Witness ==
    /\ inflight = {MaxFetches}
    /\ store.loading
    /\ response.kind = "ok"
    /\ lastAction = "fetchComments/start"

\* The step in which CommentsSection mounts and its effect runs.
MountStep == ~commentsMounted /\ commentsMounted'

\* C28: CommentsSection mounts after the restore, and its mount issues no
\* request when the restored comments are not empty, and one request when
\* they are empty.
C28_AutoFetchFollowsRestore ==
    [][MountStep
       => (/\ restore # "pending"
           /\ started = 0
           /\ IF Len(store.comments) > 0
              THEN started' = 0
              ELSE started' = 1)]_vars

\* C29: the counter actions leave comments, loading, error and isHydrated
\* as they are; clearComments leaves count, loading and isHydrated as they
\* are; setHydrated leaves count, comments, loading and error as they are.
C29_ActionsKeepOtherFields ==
    [][ActionStep
       => (/\ lastAction' \in {"increment", "decrement", "incrementBy", "resetCounter"}
                => (/\ store'.comments = store.comments
                    /\ store'.loading = store.loading
                    /\ store'.error = store.error
                    /\ store'.isHydrated = store.isHydrated)
           /\ lastAction' = "clearComments"
                => (/\ store'.count = store.count
                    /\ store'.loading = store.loading
                    /\ store'.isHydrated = store.isHydrated)
           /\ lastAction' = "setHydrated"
                => (/\ store'.count = store.count
                    /\ store'.comments = store.comments
                    /\ store'.loading = store.loading
                    /\ store'.error = store.error))]_vars
C29_Witness ==
    /\ lastAction = "resetCounter"
    /\ store.count = 0
    /\ store.error = NetworkDown
    /\ Len(store.comments) = 1
    /\ store.isHydrated

\* C30: after a call of fetchComments loading eventually becomes false (every
\* request settling in the end), and a request is issued by a call of
\* fetchComments only.
C30_FetchLeavesLoading ==
    /\ (lastAction = "fetchComments/start") ~> ~store.loading
    /\ [][started' > started => lastAction' = "fetchComments/start"]_vars

====
